---- MODULE Spec2Model ----
(***************************************************************************)
(* Model of the ESP8266 water-level node firmware (main.cpp): the EEPROM   *)
(* configuration store, the sampling cadence, the ESP-NOW send/retry       *)
(* logic, the web handlers that change the configuration and the BOOT      *)
(* button long-press detector.                                              *)
(*                                                                         *)
(* Units: times are milliseconds; distances are 1/1000 cm (so that         *)
(* duration * 0.034 / 2 is exact: 17 per microsecond); water levels are    *)
(* 1/1000 percent.  A float that holds a whole number is modelled by that  *)
(* number, its EEPROM image by its IEEE-754 single-precision bit pattern.  *)
(***************************************************************************)
EXTENDS Integers, Sequences, FiniteSets, TLC

(* ------------------------------------------------------------------ *)
(* Program constants                                                    *)
(* ------------------------------------------------------------------ *)
BTN_HOLD_MS == 4000
EEPROM_SIZE == 64
ESP_NOW_RETRY_MS == 1000
PULSE_TIMEOUT_US == 30000
CONFIG_MARKER == 170
MARKER_ADDR == 63

(* ------------------------------------------------------------------ *)
(* Bounds of the model                                                  *)
(* ------------------------------------------------------------------ *)
\* width of the millisecond counter (uint32_t in the program)
TimerBits == 13
\* loop iterations that advance the clock, per boot
MaxTicks == 12
\* loop iterations that advance the clock, per boot, while the link is watched
LinkTicks == 9
\* sends accepted by the carrier whose completion callback is outstanding
MaxInflight == 1
\* loop iterations that advance the clock, per boot, while requests are served
ShortTicks == 1
\* requests the web server dispatches per boot
MaxRequests == 2
\* power losses during saveConfig
MaxCrashes == 1
MaxFillSteps == 12
EchoSlices == 5

TimerMod == 2 ^ TimerBits
\* the clock advance between two loop iterations
TickSteps == {0, 1000}
\* the time setup() takes (delay(200), delay(50), Wi-Fi bring-up)
SetupDurations == {1192}
MaxNow == 1192 + MaxTicks * 1000
LinkNow == 1192 + LinkTicks * 1000

\* uint32_t subtraction
SubU32(a, b) == (a - b) % TimerMod
\* millis() when t milliseconds have passed since boot
millisAt(t) == t % TimerMod

(* ------------------------------------------------------------------ *)
(* Bytes, strings, floats                                               *)
(* ------------------------------------------------------------------ *)
Pad(str, n) == [i \in 1..n |-> IF i <= Len(str) THEN str[i] ELSE 0]

\* strcpy(dst, src): the characters of src and the terminating NUL; the rest
\* of dst keeps what it held
strcpy(dst, src) ==
  [i \in 1..Len(dst) |-> IF i <= Len(src) THEN src[i]
                         ELSE IF i = Len(src) + 1 THEN 0 ELSE dst[i]]

RECURSIVE Log2(_)
Log2(n) == IF n <= 1 THEN 0 ELSE 1 + Log2(n \div 2)

\* the union's uint32_t view of a float holding the whole number n >= 0
F32Bits(n) ==
  IF n = 0 THEN 0
  ELSE LET e == Log2(n)
       IN (e + 127) * 2^23 + (n - 2^e) * 2^(23 - e)

\* the union's float view of a bit pattern: the whole number it encodes; any
\* other pattern stands for itself, as a negative number
F32Value(bits) ==
  IF bits = 0 THEN 0
  ELSE LET e == (bits \div 2^23) - 127
           m == bits % 2^23
       IN IF e >= 0 /\ e <= 23 /\ m % 2^(23 - e) = 0
          THEN 2^e + m \div 2^(23 - e)
          ELSE -bits

\* byte i (0 = least significant) of a 32-bit value: (v >> (i * 8)) & 0xFF
ByteOf(v, i) == (v \div 2^(8 * i)) % 256

SentinelMac == <<255, 255, 255, 255, 255, 255>>
DefaultSsid == Pad(<<87, 65, 84, 69, 82, 95, 83, 69, 78, 83, 79, 82, 95>>, 16)
DefaultPass ==
  Pad(<<72, 97, 114, 100, 80, 97, 115, 115, 119, 111, 114, 100, 49, 50, 51, 52>>, 32)

\* struct Config with its default member initialisers
DefaultConfig ==
  [parentMac |-> SentinelMac, refreshRateMs |-> 5000, barrelHeightCm |-> 50,
   ledEnabled |-> TRUE, ssidPrefix |-> DefaultSsid, wifiPassword |-> DefaultPass]

(* ------------------------------------------------------------------ *)
(* EEPROM: saveConfig, loadConfig, clearConfig                          *)
(* ------------------------------------------------------------------ *)
ErasedFlash == [a \in 0..(EEPROM_SIZE - 1) |-> 255]

\* saveImage with a fault: the height is stored as its integer value, not as
\* the bit pattern of the float
saveImageHeightCast(cfg) ==
  [a \in 0..(EEPROM_SIZE - 1) |->
     IF a < 6 THEN cfg.parentMac[a + 1]
     ELSE IF a < 10 THEN ByteOf(cfg.refreshRateMs, a - 6)
     ELSE IF a < 14 THEN ByteOf(cfg.barrelHeightCm, a - 10)
     ELSE IF a = 14 THEN (IF cfg.ledEnabled THEN 1 ELSE 0)
     ELSE IF a < 31 THEN cfg.ssidPrefix[a - 15 + 1]
     ELSE IF a < MARKER_ADDR THEN cfg.wifiPassword[a - 31 + 1]
     ELSE CONFIG_MARKER]

\* the value saveConfig's EEPROM.write calls put at address a
saveImage(cfg) ==
  [a \in 0..(EEPROM_SIZE - 1) |->
     IF a < 6 THEN cfg.parentMac[a + 1]
     ELSE IF a < 10 THEN ByteOf(cfg.refreshRateMs, a - 6)
     ELSE IF a < 14 THEN ByteOf(F32Bits(cfg.barrelHeightCm), a - 10)
     ELSE IF a = 14 THEN (IF cfg.ledEnabled THEN 1 ELSE 0)
     ELSE IF a < 31 THEN cfg.ssidPrefix[a - 15 + 1]
     ELSE IF a < MARKER_ADDR THEN cfg.wifiPassword[a - 31 + 1]
     ELSE CONFIG_MARKER]

\* saveOrder with a fault: the marker is written first
saveOrderMarkerFirst ==
  [i \in 1..EEPROM_SIZE |-> IF i = 1 THEN MARKER_ADDR ELSE i - 2]

\* the addresses in the order saveConfig writes them (each is written once):
\* the MAC, the refresh rate, the height, the LED byte, the SSID prefix, the
\* password, and the marker
saveOrder == [i \in 1..EEPROM_SIZE |-> i - 1]

\* the store after the first k writes of saveConfig(cfg)
ApplyWrites(mem, cfg, k) ==
  LET image == saveImage(cfg)
      written == {saveOrder[i] : i \in 1..k}
  IN [a \in DOMAIN mem |-> IF a \in written THEN image[a] ELSE mem[a]]

\* saveConfig with a fault: the result of EEPROM.commit() is not returned
saveConfigAlwaysTrue(cfg, mem, commitOk) ==
  [ok |-> TRUE,
   flash |-> IF commitOk THEN ApplyWrites(mem, cfg, Len(saveOrder)) ELSE mem]

\* saveConfig: every write, then EEPROM.commit(), whose result it returns;
\* a rejected commit leaves the flash as it was
saveConfig(cfg, mem, commitOk) ==
  [ok |-> commitOk,
   flash |-> IF commitOk THEN ApplyWrites(mem, cfg, Len(saveOrder)) ELSE mem]

\* little-endian read of 4 bytes at address a
ReadU32(mem, a) ==
  mem[a] + mem[a + 1] * 2^8 + mem[a + 2] * 2^16 + mem[a + 3] * 2^24

\* loadConfig with a fault: the MAC is read before the marker is looked at
loadConfigMacFirst(cfg, mem) ==
  LET mac == [i \in 1..6 |-> mem[i - 1]]
  IN IF mem[MARKER_ADDR] # CONFIG_MARKER
     THEN [ok |-> FALSE, cfg |-> [cfg EXCEPT !.parentMac = mac]]
     ELSE [ok |-> TRUE,
           cfg |-> [parentMac |-> mac,
                    refreshRateMs |-> ReadU32(mem, 6),
                    barrelHeightCm |-> F32Value(ReadU32(mem, 10)),
                    ledEnabled |-> (mem[14] = 1),
                    ssidPrefix |-> [i \in 1..16 |-> mem[15 + (i - 1)]],
                    wifiPassword |-> [i \in 1..32 |-> mem[31 + (i - 1)]]]]

\* loadConfig(cfg): the marker first; without it cfg is not touched
loadConfig(cfg, mem) ==
  IF mem[MARKER_ADDR] # CONFIG_MARKER
  THEN [ok |-> FALSE, cfg |-> cfg]
  ELSE [ok |-> TRUE,
        cfg |-> [parentMac |-> [i \in 1..6 |-> mem[i - 1]],
                 refreshRateMs |-> ReadU32(mem, 6),
                 barrelHeightCm |-> F32Value(ReadU32(mem, 10)),
                 ledEnabled |-> (mem[14] = 1),
                 ssidPrefix |-> [i \in 1..16 |-> mem[15 + (i - 1)]],
                 wifiPassword |-> [i \in 1..32 |-> mem[31 + (i - 1)]]]]

\* the addresses clearConfig overwrites with 0xFF
clearAddrs == 0..(EEPROM_SIZE - 1)

\* clearConfig with a fault: EEPROM.commit() is left out
clearConfigNoCommit(mem, commitOk) == mem

\* clearConfig: 0xFF everywhere, then EEPROM.commit(), whose result is ignored
clearConfig(mem, commitOk) ==
  IF commitOk THEN [a \in DOMAIN mem |-> IF a \in clearAddrs THEN 255 ELSE mem[a]]
  ELSE mem

(* ------------------------------------------------------------------ *)
(* Helpers of the handlers                                              *)
(* ------------------------------------------------------------------ *)
\* sscanf("%hhx:%hhx:%hhx:%hhx:%hhx:%hhx"): a MAC string is given by the
\* fields sscanf converts before the first mismatch; each converted field is
\* stored at once, and the call succeeds when six were converted
parseMac(fields, out) ==
  [ok |-> Len(fields) = 6,
   out |-> [i \in 1..6 |-> IF i <= Len(fields) THEN fields[i] % 256 ELSE out[i]]]

\* uint8_t x = String.toInt()
ToU8(v) == v % 256

minSecToMs(minutes, seconds) == (minutes * 60 + seconds) * 1000

\* pulseIn(ECHO_PIN, HIGH, 30000) polls the line; EchoSlice microseconds pass
\* between two looks of the model at it
EchoSlice == PULSE_TIMEOUT_US \div EchoSlices

\* pulseIn that never gives up
pulseInNeverExpires(waited) == FALSE

\* pulseIn gives up, and returns 0, once the timeout has passed
pulseInExpired(waited) == waited >= PULSE_TIMEOUT_US

\* measureDistanceCM: pulseIn's duration in microseconds, 0 on timeout
measureDistanceCM(duration) == IF duration = 0 THEN -1000 ELSE duration * 17

\* calculateWaterLevel without the test for distances under 20 cm
calculateWaterLevelNoOffsetTest(distance, barrelHeight) ==
  LET adjusted == distance - 20000
      level == ((barrelHeight * 1000 - adjusted) * 100) \div barrelHeight
  IN IF level < 0 THEN 0 ELSE IF level > 100000 THEN 100000 ELSE level

\* calculateWaterLevel without the clamp at 0
calculateWaterLevelNoFloor(distance, barrelHeight) ==
  IF distance < 20000 THEN 0
  ELSE LET adjusted == distance - 20000
           level == ((barrelHeight * 1000 - adjusted) * 100) \div barrelHeight
       IN IF level > 100000 THEN 100000 ELSE level

\* calculateWaterLevel(distance, barrelHeight): the distance in thousandths
\* of a centimetre, the height in centimetres, the level in thousandths of
\* a percent
calculateWaterLevel(distance, barrelHeight) ==
  IF distance < 20000 THEN 0
  ELSE LET adjusted == distance - 20000
           level == ((barrelHeight * 1000 - adjusted) * 100) \div barrelHeight
       IN IF level < 0 THEN 0 ELSE IF level > 100000 THEN 100000 ELSE level

\* the default-MAC test with a fault: the first byte decides
isDefaultMacFirstByte(mac) == mac[1] = 255

isDefaultMac(mac) == \A i \in 1..6 : mac[i] = 255

(* ------------------------------------------------------------------ *)
(* State                                                                *)
(* ------------------------------------------------------------------ *)
VARIABLES
  pc,                 \* "boot": restarted, setup() not yet run; "run": in loop();
                      \* "measure": in pulseIn(), called by handleReadSensor;
                      \* "bench": the fill model alone, applied to given inputs
  flash,              \* the EEPROM sector
  config,             \* Config config
  configLoaded,       \* setup's configLoaded
  currentDistance, currentWaterLevel, lastSensorRead,
  espNowInitialized, espNowSendSuccess, lastEspNowSend, lastEspNowRetry,
  payload,
  btnT0, btnPressed,  \* checkButton's statics t0 and pressed
  now,                \* milliseconds since boot (millis() is now mod 2^TimerBits)
  inflight,           \* issue times of the accepted sends awaiting their callback
  btnLow,             \* the button line reads LOW (pressed)
  served,             \* requests the web server dispatched since boot
  crashes,            \* power losses during saveConfig so far
  \* history, read by the properties only
  last,               \* the step taken last and its outcome
  tx,                 \* the last carrier transmission
  failT0,             \* issue time of the send recorded as failed last, or -1
  retryAt,            \* time of the retry check's last send (0 before the first)
  retryFlip,          \* flips at every send of the retry check
  holdFrom,           \* time of the first of the current run of pressed samples, or -1
  firedInPress,       \* the factory reset fired and the line was not released since
  lastSaved,          \* the Config of the last committed save; empty once cleared
  fresh,              \* a scheduled or forced send was accepted while a failure
                      \* was on record, and no completion or failure came since
  sent,               \* whether the send issued last, among those whose outcome
                      \* is known, has failed, and the number of outstanding
                      \* sends issued before it
  asked,              \* the minutes and seconds the last /save since setup()
                      \* submitted, or -1
  wiped,              \* a factory reset (long press or /reset) ran since setup()
  echoWait,           \* microseconds pulseIn has waited for the echo so far; -1
                      \* while no measurement is under way
  smp                 \* the last sample: its caller, its time, the time since
                      \* the sample before it and the refresh rate it ran under

vars == <<pc, flash, config, configLoaded, currentDistance, currentWaterLevel,
          lastSensorRead, espNowInitialized, espNowSendSuccess, lastEspNowSend,
          lastEspNowRetry, payload, btnT0, btnPressed, now, inflight, btnLow,
          served, crashes, last, tx, failT0, retryAt, retryFlip, holdFrom, firedInPress, lastSaved,
          fresh, wiped, echoWait, smp, sent, asked>>

\* the state as one record, so that a handler is the composition of its calls
Cur ==
  [pc |-> pc, flash |-> flash, config |-> config, configLoaded |-> configLoaded,
   currentDistance |-> currentDistance, currentWaterLevel |-> currentWaterLevel,
   lastSensorRead |-> lastSensorRead, espNowInitialized |-> espNowInitialized,
   espNowSendSuccess |-> espNowSendSuccess, lastEspNowSend |-> lastEspNowSend,
   lastEspNowRetry |-> lastEspNowRetry, payload |-> payload, btnT0 |-> btnT0,
   btnPressed |-> btnPressed, now |-> now, inflight |-> inflight, btnLow |-> btnLow,
   served |-> served, crashes |-> crashes,
   last |-> last, tx |-> tx, failT0 |-> failT0, retryAt |-> retryAt,
   retryFlip |-> retryFlip, holdFrom |-> holdFrom, firedInPress |-> firedInPress,
   lastSaved |-> lastSaved, fresh |-> fresh, wiped |-> wiped, echoWait |-> echoWait,
   smp |-> smp, sent |-> sent, asked |-> asked]

Becomes(s) ==
  /\ pc' = s.pc /\ flash' = s.flash /\ config' = s.config
  /\ configLoaded' = s.configLoaded
  /\ currentDistance' = s.currentDistance /\ currentWaterLevel' = s.currentWaterLevel
  /\ lastSensorRead' = s.lastSensorRead /\ espNowInitialized' = s.espNowInitialized
  /\ espNowSendSuccess' = s.espNowSendSuccess /\ lastEspNowSend' = s.lastEspNowSend
  /\ lastEspNowRetry' = s.lastEspNowRetry /\ payload' = s.payload
  /\ btnT0' = s.btnT0 /\ btnPressed' = s.btnPressed /\ now' = s.now
  /\ inflight' = s.inflight /\ btnLow' = s.btnLow /\ served' = s.served
  /\ crashes' = s.crashes
  /\ last' = s.last /\ tx' = s.tx
  /\ failT0' = s.failT0 /\ retryAt' = s.retryAt /\ retryFlip' = s.retryFlip
  /\ holdFrom' = s.holdFrom /\ firedInPress' = s.firedInPress
  /\ lastSaved' = s.lastSaved /\ fresh' = s.fresh /\ smp' = s.smp
  /\ echoWait' = s.echoWait /\ wiped' = s.wiped /\ sent' = s.sent
  /\ asked' = s.asked

Is(s) ==
  /\ pc = s.pc /\ flash = s.flash /\ config = s.config
  /\ configLoaded = s.configLoaded
  /\ currentDistance = s.currentDistance /\ currentWaterLevel = s.currentWaterLevel
  /\ lastSensorRead = s.lastSensorRead /\ espNowInitialized = s.espNowInitialized
  /\ espNowSendSuccess = s.espNowSendSuccess /\ lastEspNowSend = s.lastEspNowSend
  /\ lastEspNowRetry = s.lastEspNowRetry /\ payload = s.payload
  /\ btnT0 = s.btnT0 /\ btnPressed = s.btnPressed /\ now = s.now
  /\ inflight = s.inflight /\ btnLow = s.btnLow /\ served = s.served
  /\ crashes = s.crashes
  /\ last = s.last /\ tx = s.tx
  /\ failT0 = s.failT0 /\ retryAt = s.retryAt /\ retryFlip = s.retryFlip
  /\ holdFrom = s.holdFrom /\ firedInPress = s.firedInPress
  /\ lastSaved = s.lastSaved /\ fresh = s.fresh /\ smp = s.smp
  /\ echoWait = s.echoWait /\ wiped = s.wiped /\ sent = s.sent
  /\ asked = s.asked

NoPayload == [distance |-> 0, waterLevel |-> 0, barrelHeight |-> 0]
NoTx == [kind |-> "none", mac |-> <<>>, sinceFail |-> 0, sinceRetry |-> 0,
         superseded |-> FALSE]
NoAsk == [minutes |-> -1, seconds |-> -1]
NoSent == [failed |-> FALSE, older |-> 0]
NoSample == [kind |-> "none", prev |-> "none", at |-> 0, since |-> 0,
             interval |-> 0, flip |-> FALSE]

\* ESP.restart(), and power-on: every global and static back to its
\* initialiser; the flash and the button line are what they are (tx keeps
\* the record of the last transmission until setup() has run)
Restarted(s) ==
  [s EXCEPT !.pc = "boot", !.config = DefaultConfig, !.configLoaded = FALSE,
            !.currentDistance = 0, !.currentWaterLevel = 0, !.lastSensorRead = 0,
            !.espNowInitialized = FALSE, !.espNowSendSuccess = TRUE,
            !.lastEspNowSend = 0, !.lastEspNowRetry = 0, !.payload = NoPayload,
            !.btnT0 = 0, !.btnPressed = FALSE, !.now = 0, !.inflight = <<>>,
            !.failT0 = -1, !.retryAt = 0, !.retryFlip = FALSE, !.holdFrom = -1,
            !.served = 0, !.fresh = FALSE, !.smp = NoSample, !.echoWait = -1,
            !.sent = NoSent]

(* ------------------------------------------------------------------ *)
(* ESP-NOW                                                              *)
(* ------------------------------------------------------------------ *)
\* initEspNow without the default-MAC test
initEspNowAnyMac(cfg, initOk, addPeerOk) ==
  IF ~initOk THEN FALSE ELSE addPeerOk

\* initEspNow: esp_now_init, then the default-MAC test, then esp_now_add_peer
initEspNow(cfg, initOk, addPeerOk) ==
  IF ~initOk THEN FALSE
  ELSE IF isDefaultMac(cfg.parentMac) THEN FALSE
  ELSE addPeerOk

\* esp_now_send's return value: 0 when the carrier takes the datagram; it
\* takes none while MaxInflight completions are outstanding
esp_now_send(s, res) == IF res = 0 /\ Len(s.inflight) < MaxInflight THEN 0 ELSE 1

\* sendEspNowData without the test of espNowInitialized
sendEspNowDataUnguarded(s, res, kind) ==
  LET pl == [distance |-> s.currentDistance,
             waterLevel |-> s.currentWaterLevel,
             barrelHeight |-> s.config.barrelHeightCm]
      result == esp_now_send(s, res)
  IN [s EXCEPT
        !.payload = pl,
        !.espNowSendSuccess = IF result # 0 THEN FALSE ELSE @,
        !.lastEspNowSend = millisAt(s.now),
        !.inflight = IF result = 0 THEN Append(@, s.now) ELSE @,
        !.failT0 = IF result # 0 THEN s.now ELSE @,
        !.tx = [kind |-> kind, mac |-> s.config.parentMac,
                sinceFail |-> IF s.failT0 < 0 THEN -1 ELSE s.now - s.failT0,
                sinceRetry |-> s.now - s.retryAt,
                superseded |-> s.fresh]]

\* sendEspNowData, called for a scheduled, forced or retry send
sendEspNowData(s, res, kind) ==
  IF ~s.espNowInitialized THEN s
  ELSE LET pl == [distance |-> s.currentDistance,
                  waterLevel |-> s.currentWaterLevel,
                  barrelHeight |-> s.config.barrelHeightCm]
           result == esp_now_send(s, res)
       IN [s EXCEPT
             !.payload = pl,
             !.espNowSendSuccess = IF result # 0 THEN FALSE ELSE @,
             !.lastEspNowSend = millisAt(s.now),
             !.inflight = IF result = 0 THEN Append(@, s.now) ELSE @,
             !.failT0 = IF result # 0 THEN s.now ELSE @,
             !.sent = IF result # 0
                      THEN [failed |-> TRUE, older |-> Len(s.inflight)]
                      ELSE @,
             !.fresh = IF result # 0 THEN FALSE
                       ELSE IF kind # "retry" /\ ~s.espNowSendSuccess THEN TRUE
                       ELSE @,
             !.tx = [kind |-> kind, mac |-> s.config.parentMac,
                     sinceFail |-> IF s.failT0 < 0 THEN -1 ELSE s.now - s.failT0,
                     sinceRetry |-> s.now - s.retryAt,
                     superseded |-> s.fresh]]

\* onEspNowSend(mac, status): the completion callback of the oldest
\* outstanding send
onEspNowSend(s, status) ==
  [s EXCEPT !.espNowSendSuccess = (status = 0),
            !.inflight = Tail(@),
            !.failT0 = IF status # 0 THEN Head(s.inflight) ELSE @,
            !.sent = IF @.older > 0 THEN [@ EXCEPT !.older = @ - 1]
                     ELSE [failed |-> status # 0, older |-> 0],
            !.fresh = FALSE]

(* ------------------------------------------------------------------ *)
(* Sampling                                                             *)
(* ------------------------------------------------------------------ *)
\* the record of a sample taken in state s by the given caller
Sampled(s, kind) ==
  [kind |-> kind, prev |-> s.smp.kind, at |-> s.now, since |-> s.now - s.smp.at,
   interval |-> s.config.refreshRateMs, flip |-> ~s.smp.flip]

\* takeSample with a fault: a measurement that timed out ends the sample
takeSampleStopsOnTimeout(s, duration, res, kind) ==
  LET currentTime == millisAt(s.now)
      d == measureDistanceCM(duration)
      s0 == [s EXCEPT !.currentDistance = d, !.smp = Sampled(s, kind)]
      s1 == [s0 EXCEPT !.currentWaterLevel =
                          calculateWaterLevel(d, s.config.barrelHeightCm),
                       !.lastSensorRead = currentTime]
  IN IF d < 0 THEN s0
     ELSE IF s1.espNowInitialized THEN sendEspNowData(s1, res, kind) ELSE s1

\* takeSample with a fault: the reading is not sent
takeSampleSilent(s, duration, res, kind) ==
  LET d == measureDistanceCM(duration)
  IN [s EXCEPT !.currentDistance = d,
               !.currentWaterLevel =
                  calculateWaterLevel(d, s.config.barrelHeightCm),
               !.lastSensorRead = millisAt(s.now),
               !.smp = Sampled(s, kind)]

\* the body of updateSensorReadings once the refresh-rate test passed
takeSample(s, duration, res, kind) ==
  LET currentTime == millisAt(s.now)
      d == measureDistanceCM(duration)
      s1 == [s EXCEPT !.currentDistance = d,
                      !.currentWaterLevel =
                         calculateWaterLevel(d, s.config.barrelHeightCm),
                      !.lastSensorRead = currentTime,
                      !.smp = Sampled(s, kind)]
  IN IF s1.espNowInitialized THEN sendEspNowData(s1, res, kind) ELSE s1

\* sampleDue with a fault: millis() is compared with a deadline,
\* lastSensorRead + refreshRateMs, computed in the width of the counter
sampleDueDeadline(s) ==
  millisAt(s.now) >= (s.lastSensorRead + s.config.refreshRateMs) % TimerMod

\* sampleDue with a fault: no sample while a send is on record as failed
sampleDueUnlessFailed(s) ==
  /\ s.espNowSendSuccess
  /\ SubU32(millisAt(s.now), s.lastSensorRead) >= s.config.refreshRateMs

\* the refresh-rate test of updateSensorReadings
sampleDue(s) ==
  SubU32(millisAt(s.now), s.lastSensorRead) >= s.config.refreshRateMs

updateSensorReadings(s, duration, res) ==
  IF sampleDue(s) THEN takeSample(s, duration, res, "scheduled") ELSE s

(* ------------------------------------------------------------------ *)
(* loop(): the retry check and checkButton                              *)
(* ------------------------------------------------------------------ *)
\* retryDue with a fault: the interval test is left out
retryDueUngated(s) == TRUE

\* retryDue with a fault: millis() is compared with a deadline,
\* lastEspNowRetry + ESP_NOW_RETRY_MS, which does not survive the wrap
retryDueDeadline(s) == millisAt(s.now) >= s.lastEspNowRetry + ESP_NOW_RETRY_MS

\* retryDue with a fault: the interval doubles while the clock is past 4 s
retryDueBackoff(s) ==
  SubU32(millisAt(s.now), s.lastEspNowRetry)
    >= (IF s.now > 4 * ESP_NOW_RETRY_MS THEN 2 ELSE 1) * ESP_NOW_RETRY_MS

\* millis() - lastEspNowRetry >= ESP_NOW_RETRY_MS
retryDue(s) == SubU32(millisAt(s.now), s.lastEspNowRetry) >= ESP_NOW_RETRY_MS

retryCheck(s, res) ==
  IF s.espNowInitialized /\ ~s.espNowSendSuccess /\ retryDue(s)
  THEN [sendEspNowData(s, res, "retry") EXCEPT
          !.lastEspNowRetry = millisAt(s.now),
          !.retryAt = s.now,
          !.retryFlip = ~@]
  ELSE s

\* the long press: clearConfig(), blink, ESP.restart()
factoryReset(s, commitOk) ==
  [Restarted([s EXCEPT !.flash = clearConfig(s.flash, commitOk),
                       !.lastSaved = IF commitOk THEN {} ELSE @])
     EXCEPT !.firedInPress = TRUE,
            !.wiped = TRUE,
            !.last = [op |-> "loop", status |-> "reset",
                      held |-> IF s.holdFrom < 0 THEN -1 ELSE s.now - s.holdFrom,
                      again |-> s.firedInPress]]

\* checkButton with a fault: a release does not discard the timer
checkButtonNoRelease(s, commitOk) ==
  IF s.btnLow
  THEN IF s.btnT0 = 0
       THEN [s EXCEPT !.btnT0 = millisAt(s.now), !.btnPressed = TRUE]
       ELSE IF SubU32(millisAt(s.now), s.btnT0) >= BTN_HOLD_MS
            THEN factoryReset(s, commitOk)
            ELSE s
  ELSE s

\* checkButton, with the line as digitalRead(BTN_PIN) returns it
checkButton(s, commitOk) ==
  IF s.btnLow
  THEN IF s.btnT0 = 0
       THEN [s EXCEPT !.btnT0 = millisAt(s.now), !.btnPressed = TRUE]
       ELSE IF SubU32(millisAt(s.now), s.btnT0) >= BTN_HOLD_MS
            THEN factoryReset(s, commitOk)
            ELSE s
  ELSE IF s.btnPressed /\ s.btnT0 > 0
       THEN [s EXCEPT !.btnPressed = FALSE, !.btnT0 = 0]
       ELSE s

\* the loop iteration starts d milliseconds after the previous one
loopEnter(s, d) ==
  [s EXCEPT !.now = @ + d,
            !.last = [op |-> "loop", status |-> "ok", held |-> -1, again |-> FALSE],
            !.holdFrom = IF ~s.btnLow THEN -1 ELSE IF @ < 0 THEN s.now + d ELSE @]

(* ------------------------------------------------------------------ *)
(* Web handlers                                                         *)
(* ------------------------------------------------------------------ *)
Outcome(op, status) == [op |-> op, status |-> status, held |-> -1, again |-> FALSE]

\* handleSave with a fault: the barrel height is assigned before it is checked
handleSaveHeightUnchecked(s, req, commitOk) ==
  LET s0 == [s EXCEPT !.last = Outcome("save", "400 Missing parameters"),
                      !.asked = [minutes |-> req.minutes, seconds |-> req.seconds]]
      mac == parseMac(req.pmac, s.config.parentMac)
      s1 == [s0 EXCEPT !.config.parentMac = mac.out]
      minutes == ToU8(req.minutes)
      seconds == ToU8(req.seconds)
      s2 == [s1 EXCEPT !.config.refreshRateMs = minSecToMs(minutes, seconds),
                       !.config.barrelHeightCm = req.barrel]
      s3 == [s2 EXCEPT !.config.ledEnabled = req.led,
                       !.config.ssidPrefix =
                          IF Len(req.ssid) > 0 /\ Len(req.ssid) <= 15
                          THEN strcpy(@, req.ssid) ELSE @]
      s4 == [s3 EXCEPT !.config.wifiPassword = strcpy(@, req.password)]
      s5 == IF Len(req.password) >= 8 /\ Len(req.password) <= 31 THEN s4 ELSE s3
      saved == saveConfig(s5.config, s5.flash, commitOk)
  IN IF ~req.has THEN s0
     ELSE IF ~mac.ok
       THEN [s1 EXCEPT !.last = Outcome("save", "400 Bad MAC format")]
     ELSE IF minutes > 59 \/ seconds > 59
       THEN [s1 EXCEPT !.last = Outcome("save", "400 Invalid time format")]
     ELSE IF req.barrel <= 0 \/ req.barrel > 1000
       THEN [s2 EXCEPT !.last = Outcome("save", "400 Invalid barrel height")]
     ELSE IF ~(Len(req.password) >= 8 /\ Len(req.password) <= 31)
             /\ Len(req.password) > 0
       THEN [s3 EXCEPT !.last = Outcome("save", "400 WiFi password length")]
     ELSE IF saved.ok
       THEN Restarted([s5 EXCEPT !.flash = saved.flash,
                                 !.lastSaved = {s5.config},
                                 !.last = Outcome("save", "200 Rebooting")])
     ELSE [s5 EXCEPT !.last = Outcome("save", "500 Failed to save settings")]

\* handleSave for the request req; the fields of config are assigned as the
\* arguments are parsed, one after the other
handleSave(s, req, commitOk) ==
  LET s0 == [s EXCEPT !.last = Outcome("save", "400 Missing parameters"),
                      !.asked = [minutes |-> req.minutes, seconds |-> req.seconds]]
      mac == parseMac(req.pmac, s.config.parentMac)
      s1 == [s0 EXCEPT !.config.parentMac = mac.out]
      minutes == ToU8(req.minutes)
      seconds == ToU8(req.seconds)
      s2 == [s1 EXCEPT !.config.refreshRateMs = minSecToMs(minutes, seconds)]
      s3 == [s2 EXCEPT !.config.barrelHeightCm = req.barrel,
                       !.config.ledEnabled = req.led,
                       !.config.ssidPrefix =
                          IF Len(req.ssid) > 0 /\ Len(req.ssid) <= 15
                          THEN strcpy(@, req.ssid) ELSE @]
      s4 == [s3 EXCEPT !.config.wifiPassword = strcpy(@, req.password)]
      s5 == IF Len(req.password) >= 8 /\ Len(req.password) <= 31 THEN s4 ELSE s3
      saved == saveConfig(s5.config, s5.flash, commitOk)
  IN IF ~req.has THEN s0
     ELSE IF ~mac.ok
       THEN [s1 EXCEPT !.last = Outcome("save", "400 Bad MAC format")]
     ELSE IF minutes > 59 \/ seconds > 59
       THEN [s1 EXCEPT !.last = Outcome("save", "400 Invalid time format")]
     ELSE IF req.barrel <= 0 \/ req.barrel > 1000
       THEN [s2 EXCEPT !.last = Outcome("save", "400 Invalid barrel height")]
     ELSE IF ~(Len(req.password) >= 8 /\ Len(req.password) <= 31)
             /\ Len(req.password) > 0
       THEN [s3 EXCEPT !.last = Outcome("save", "400 WiFi password length")]
     ELSE IF saved.ok
       THEN Restarted([s5 EXCEPT !.flash = saved.flash,
                                 !.lastSaved = {s5.config},
                                 !.last = Outcome("save", "200 Rebooting")])
     ELSE [s5 EXCEPT !.last = Outcome("save", "500 Failed to save settings")]

\* handleReset: the defaults into config, clearConfig(), the confirmation page
handleReset(s, commitOk) ==
  [s EXCEPT !.config = [@ EXCEPT !.parentMac = SentinelMac,
                                 !.refreshRateMs = 5000,
                                 !.barrelHeightCm = 50,
                                 !.ledEnabled = TRUE,
                                 !.ssidPrefix = strcpy(@, <<87, 65, 84, 69, 82, 95, 83,
                                                            69, 78, 83, 79, 82, 95>>),
                                 !.wifiPassword = strcpy(@, <<72, 97, 114, 100, 80, 97,
                                                              115, 115, 119, 111, 114,
                                                              100, 49, 50, 51, 52>>)],
            !.flash = clearConfig(s.flash, commitOk),
            !.lastSaved = IF commitOk THEN {} ELSE @,
            !.wiped = TRUE,
            !.last = Outcome("reset", IF commitOk THEN "200 committed"
                                      ELSE "200 commit rejected")]

\* handleReadSensor without the update of lastSensorRead
handleReadSensorKeepsTimer(s, duration, res) ==
  LET d == measureDistanceCM(duration)
      level == calculateWaterLevel(d, s.config.barrelHeightCm)
      s1 == [s EXCEPT !.currentDistance = d, !.currentWaterLevel = level,
                      !.smp = Sampled(s, "forced")]
      s2 == IF s1.espNowInitialized THEN sendEspNowData(s1, res, "forced") ELSE s1
  IN [s2 EXCEPT !.last = Outcome("read", "200")]

\* handleReadSensor: the forced sample
handleReadSensor(s, duration, res) ==
  LET d == measureDistanceCM(duration)
      level == calculateWaterLevel(d, s.config.barrelHeightCm)
      s1 == [s EXCEPT !.currentDistance = d, !.currentWaterLevel = level,
                      !.lastSensorRead = millisAt(s.now),
                      !.smp = Sampled(s, "forced")]
      s2 == IF s1.espNowInitialized THEN sendEspNowData(s1, res, "forced") ELSE s1
  IN [s2 EXCEPT !.last = Outcome("read", "200")]

\* the ESP-NOW status handleRoot and handleSensor put on their pages
espNowStatus(s) ==
  IF s.espNowInitialized
  THEN (IF s.espNowSendSuccess THEN "Connected" ELSE "Error")
  ELSE "Disabled (Parent MAC not configured)"

\* handleRoot and handleSensor: updateSensorReadings(), then the page, of
\* which the ESP-NOW status is kept
handlePage(s, duration, res) ==
  LET s1 == updateSensorReadings(s, duration, res)
  IN [s1 EXCEPT !.last = Outcome("page", espNowStatus(s1))]

(* ------------------------------------------------------------------ *)
(* setup()                                                              *)
(* ------------------------------------------------------------------ *)
setup(s, took, initOk, addPeerOk, duration) ==
  LET ld == loadConfig(s.config, s.flash)
      d == measureDistanceCM(duration)
  IN [s EXCEPT !.pc = "run",
               !.config = ld.cfg,
               !.configLoaded = ld.ok,
               !.espNowInitialized = initEspNow(ld.cfg, initOk, addPeerOk),
               !.currentDistance = d,
               !.currentWaterLevel = calculateWaterLevel(d, ld.cfg.barrelHeightCm),
               !.lastSensorRead = millisAt(took),
               !.now = took,
               !.tx = NoTx,
               !.wiped = FALSE,
               !.asked = NoAsk,
               !.smp = [kind |-> "setup", prev |-> "none", at |-> took, since |-> 0,
                        interval |-> ld.cfg.refreshRateMs, flip |-> FALSE],
               !.last = Outcome("setup", IF ld.ok THEN "loaded" ELSE "defaults")]

(* ------------------------------------------------------------------ *)
(* Inputs                                                               *)
(* ------------------------------------------------------------------ *)
PeerMac == <<164, 207, 18, 52, 86, 120>>
Tank == <<84, 65, 78, 75>>
GoodPass == <<49, 50, 51, 52, 53, 54, 55, 56>>
ShortPass == <<97, 98, 99>>

Request(pmac, minutes, seconds, barrel, led, ssid, password) ==
  [has |-> TRUE, pmac |-> pmac, minutes |-> minutes, seconds |-> seconds,
   barrel |-> barrel, led |-> led, ssid |-> ssid, password |-> password]

\* accepted by handleSave: every field given; the default (broadcast) MAC
\* with the SSID prefix and the password left as they are
GoodRequests ==
  { Request(PeerMac, 0, 1, 100, FALSE, Tank, GoodPass),
    Request(SentinelMac, 0, 5, 50, TRUE, <<>>, <<>>) }

\* rejected by handleSave, one per check (two for the barrel height)
BadRequests ==
  { [Request(PeerMac, 0, 1, 100, FALSE, Tank, <<>>) EXCEPT !.has = FALSE],
    Request(<<164, 207>>, 0, 1, 100, FALSE, Tank, <<>>),
    Request(PeerMac, 60, 0, 100, FALSE, Tank, <<>>),
    Request(PeerMac, 0, 1, 0, FALSE, Tank, <<>>),
    Request(PeerMac, 0, 1, 1001, FALSE, Tank, <<>>),
    Request(SentinelMac, 0, 1, 100, FALSE, Tank, ShortPass) }

SaveRequests == GoodRequests \cup BadRequests

\* pulseIn's result: 0 (timeout), or an echo of that many microseconds
EchoDurations == {0, 3000}

\* esp_now_send's verdict, and the status a completion callback delivers
CarrierResults == {0, 1}

(* ------------------------------------------------------------------ *)
(* Actions                                                              *)
(* ------------------------------------------------------------------ *)
\* power-on: the EEPROM sector holds mem, the button line reads low
PowerOn(mem, low) ==
  Restarted(
    [pc |-> "boot", flash |-> mem, config |-> DefaultConfig,
     configLoaded |-> FALSE, currentDistance |-> 0, currentWaterLevel |-> 0,
     lastSensorRead |-> 0, espNowInitialized |-> FALSE,
     espNowSendSuccess |-> TRUE, lastEspNowSend |-> 0, lastEspNowRetry |-> 0,
     payload |-> NoPayload, btnT0 |-> 0, btnPressed |-> FALSE, now |-> 0,
     inflight |-> <<>>, btnLow |-> low, served |-> 0, crashes |-> 0,
     last |-> Outcome("power-on", "ok"),
     tx |-> NoTx, failT0 |-> -1, retryAt |-> 0, retryFlip |-> FALSE,
     holdFrom |-> -1, firedInPress |-> FALSE,
     lastSaved |-> IF mem[MARKER_ADDR] = CONFIG_MARKER
                   THEN {loadConfig(DefaultConfig, mem).cfg} ELSE {},
     fresh |-> FALSE, wiped |-> FALSE, echoWait |-> -1, smp |-> NoSample,
     sent |-> NoSent, asked |-> NoAsk])

\* the configuration the first good request leaves in config, and the sector
\* after it was saved
PeerConfig ==
  [DefaultConfig EXCEPT !.parentMac = PeerMac, !.refreshRateMs = 1000,
                        !.barrelHeightCm = 100, !.ledEnabled = FALSE,
                        !.ssidPrefix = strcpy(@, Tank),
                        !.wifiPassword = strcpy(@, GoodPass)]
PeerFlash == saveConfig(PeerConfig, ErasedFlash, TRUE).flash
\* the same with a refresh rate of five seconds
SlowPeerConfig == [PeerConfig EXCEPT !.refreshRateMs = minSecToMs(0, 5)]
SlowPeerFlash == saveConfig(SlowPeerConfig, ErasedFlash, TRUE).flash

\* a device fresh from the factory
Init == Is(PowerOn(ErasedFlash, FALSE))

\* the inputs a call reads: an input that the call does not read is fixed
EchoFor(s, sampling) == IF sampling THEN EchoDurations ELSE {0}
CarrierFor(s, sending) ==
  IF sending /\ s.espNowInitialized /\ Len(s.inflight) < MaxInflight
  THEN CarrierResults ELSE {1}
CommitFor(writing) == IF writing THEN BOOLEAN ELSE {TRUE}

\* a request was dispatched
Served(s) == IF s.pc = "run" THEN [s EXCEPT !.served = @ + 1] ELSE s

\* setup() after power-on or ESP.restart()
Setup ==
  /\ pc = "boot"
  /\ \E took \in SetupDurations, duration \in EchoDurations,
        up \in (IF loadConfig(config, flash).cfg.parentMac = SentinelMac
                THEN {TRUE} ELSE BOOLEAN) :
       Becomes(setup(Cur, took, up, up, duration))

\* one iteration of loop() that finds no request, d milliseconds after the
\* previous one, the clock not beyond maxNow: updateSensorReadings(), the
\* retry check, checkButton(), each on the state the one before left
LoopAt(d, maxNow) ==
  /\ pc = "run"
  /\ now + d <= maxNow
  /\ \E s0 \in {loopEnter(Cur, d)} :
     \E duration \in EchoFor(s0, sampleDue(s0)),
        res1 \in CarrierFor(s0, sampleDue(s0)) :
       \E s1 \in {updateSensorReadings(s0, duration, res1)} :
       \E res2 \in CarrierFor(s1, ~s1.espNowSendSuccess /\ retryDue(s1)) :
         \E s2 \in {retryCheck(s1, res2)} :
         \E commitOk \in CommitFor(s2.btnLow /\ s2.btnT0 # 0) :
           \E s3 \in {checkButton(s2, commitOk)} :
             Becomes(s3)

Loop == \E d \in TickSteps : LoopAt(d, MaxNow)

\* the loop of the link scenario
LoopLink == \E d \in TickSteps : LoopAt(d, LinkNow)

\* its iterations before which the clock has advanced
LoopAdvancing == \E d \in TickSteps \ {0} : LoopAt(d, LinkNow)

\* the loop of the configuration scenario: a short horizon
LoopShort == \E d \in TickSteps : LoopAt(d, 1192 + ShortTicks * 1000)

\* server.handleClient() dispatching POST /save
HandleSave ==
  /\ pc = "run"
  /\ served < MaxRequests
  /\ \E req \in SaveRequests, commitOk \in BOOLEAN :
       Becomes(Served(handleSave(Cur, req, commitOk)))

\* server.handleClient() dispatching /reset
HandleReset ==
  /\ pc = "run"
  /\ served < MaxRequests
  /\ \E commitOk \in BOOLEAN : Becomes(Served(handleReset(Cur, commitOk)))

\* server.handleClient() dispatching /read
HandleReadSensor ==
  /\ pc = "run"
  /\ served < MaxRequests
  /\ \E duration \in EchoDurations, res \in CarrierFor(Cur, TRUE) :
       Becomes(Served(handleReadSensor(Cur, duration, res)))

\* server.handleClient() dispatching / or /sensor
HandlePage ==
  /\ pc = "run"
  /\ served < MaxRequests
  /\ \E duration \in EchoFor(Cur, sampleDue(Cur)),
        res \in CarrierFor(Cur, sampleDue(Cur)) :
       Becomes(Served(handlePage(Cur, duration, res)))

\* the carrier delivers the completion of the oldest outstanding send
OnEspNowSend ==
  /\ pc = "run"
  /\ inflight # <<>>
  /\ \E status \in CarrierResults :
       Becomes([onEspNowSend(Cur, status) EXCEPT !.last = Outcome("callback", "ok")])

\* the button is pressed or released
ButtonEdge ==
  \E low \in BOOLEAN \ {btnLow} :
    Becomes([Cur EXCEPT !.btnLow = low,
                        !.firedInPress = FALSE,
                        !.last = Outcome("button", "edge")])

\* one iteration of loop() in which server.handleClient() dispatches / or
\* /sensor, d milliseconds after the previous iteration
PageAt(d, maxNow) ==
  /\ pc = "run"
  /\ served < MaxRequests
  /\ now + d <= maxNow
  /\ \E s0 \in {loopEnter(Cur, d)} :
     \E duration \in EchoFor(s0, sampleDue(s0)),
        res0 \in CarrierFor(s0, sampleDue(s0)) :
       \E s1 \in {Served(handlePage(s0, duration, res0))} :
       \E res1 \in CarrierFor(s1, sampleDue(s1)) :
         \E s2 \in {updateSensorReadings(s1, duration, res1)} :
         \E res2 \in CarrierFor(s2, ~s2.espNowSendSuccess /\ retryDue(s2)) :
           \E s3 \in {retryCheck(s2, res2)} :
           \E commitOk \in CommitFor(s3.btnLow /\ s3.btnT0 # 0) :
             \E s4 \in {checkButton(s3, commitOk)} :
               Becomes(s4)

\* one iteration of loop() in which server.handleClient() dispatches /read
ReadAt(d, maxNow) ==
  /\ pc = "run"
  /\ served < MaxRequests
  /\ now + d <= maxNow
  /\ \E s0 \in {loopEnter(Cur, d)} :
     \E duration \in EchoDurations, res0 \in CarrierFor(s0, TRUE) :
       \E s1 \in {Served(handleReadSensor(s0, duration, res0))} :
       \E res1 \in CarrierFor(s1, sampleDue(s1)) :
         \E s2 \in {updateSensorReadings(s1, duration, res1)} :
         \E res2 \in CarrierFor(s2, ~s2.espNowSendSuccess /\ retryDue(s2)) :
           \E s3 \in {retryCheck(s2, res2)} :
           \E commitOk \in CommitFor(s3.btnLow /\ s3.btnT0 # 0) :
             \E s4 \in {checkButton(s3, commitOk)} :
               Becomes(s4)

PageIteration == \E d \in TickSteps : PageAt(d, MaxNow)
ReadIteration == \E d \in TickSteps : ReadAt(d, MaxNow)

\* The whole program is too large to explore as one product, so each
\* specification lets the environment vary in one respect.
\* Spec: the requests that read and change the configuration, over a short
\* horizon of the clock and with the button released.
Next ==
  \/ Setup
  \/ LoopShort
  \/ HandleSave
  \/ HandleReset
  \/ HandleReadSensor
  \/ HandlePage
  \/ OnEspNowSend

Spec == Init /\ [][Next]_vars

\* SpecLink: a peer is configured; samples, sends, completions and retries
\* until the counter has wrapped.
InitLink == Is(PowerOn(PeerFlash, FALSE))

NextLink ==
  \/ Setup
  \/ LoopLink
  \/ OnEspNowSend

SpecLink == InitLink /\ [][NextLink]_vars

\* SpecButton: the button is pressed and released while the loop runs.
InitButton == \E mem \in {ErasedFlash, PeerFlash} : Is(PowerOn(mem, FALSE))

NextButton ==
  \/ Setup
  \/ Loop
  \/ ButtonEdge

SpecButton == InitButton /\ [][NextButton]_vars

\* SpecCadence: a refresh rate of two ticks and no peer; iterations of the
\* loop with and without a request for a page or for a forced sample, until
\* the counter has wrapped.
CadenceConfig == [DefaultConfig EXCEPT !.refreshRateMs = minSecToMs(0, 2)]
CadenceFlash == saveConfig(CadenceConfig, ErasedFlash, TRUE).flash

InitCadence == Is(PowerOn(CadenceFlash, FALSE))

NextCadence ==
  \/ Setup
  \/ Loop
  \/ PageIteration
  \/ ReadIteration

SpecCadence == InitCadence /\ [][NextCadence]_vars

\* SpecFill: measureDistanceCM and calculateWaterLevel on the bench, applied
\* to echoes and to distances drawn from the sets below, for barrels of the
\* heights handleSave accepts.
FillHeights == {1, 19, 50, 100, 999, 1000}
FillEchoes == {0, 1, 1176, 1177, 1471, 3000, 7058, 30000}
FillDistances ==
  {-1000, 0, 19999, 20000, 25000} \cup {k * 10000 : k \in 0..MaxFillSteps}

InitFill ==
  \E h \in FillHeights :
    Is([PowerOn(ErasedFlash, FALSE) EXCEPT !.pc = "bench",
                                           !.config.barrelHeightCm = h])

\* calculateWaterLevel(measureDistanceCM(), config.barrelHeightCm)
MeasureAndFill ==
  /\ pc = "bench"
  /\ \E duration \in FillEchoes :
       \E d \in {measureDistanceCM(duration)} :
         Becomes([Cur EXCEPT !.currentDistance = d,
                             !.currentWaterLevel =
                                calculateWaterLevel(d, config.barrelHeightCm),
                             !.last = Outcome("fill", "measured")])

\* calculateWaterLevel(distance, config.barrelHeightCm)
FillPercent ==
  /\ pc = "bench"
  /\ \E d \in FillDistances :
       Becomes([Cur EXCEPT !.currentDistance = d,
                           !.currentWaterLevel =
                              calculateWaterLevel(d, config.barrelHeightCm),
                           !.last = Outcome("fill", "given")])

NextFill ==
  \/ MeasureAndFill
  \/ FillPercent

SpecFill == InitFill /\ [][NextFill]_vars

\* SpecEcho: the forced sample with the wait of pulseIn() in slices: the echo
\* may complete in any slice, or never (a line that does not change).
InitEcho == \E mem \in {ErasedFlash, PeerFlash} : Is(PowerOn(mem, FALSE))

\* server.handleClient() dispatches /read; measureDistanceCM() has sent the
\* trigger pulse and entered pulseIn()
BeginMeasure ==
  /\ pc = "run"
  /\ served < MaxRequests
  /\ Becomes([Served(Cur) EXCEPT !.pc = "measure", !.echoWait = 0,
                                 !.last = Outcome("read", "measuring")])

\* pulseIn() after one more slice: the echo pulse has completed, or the
\* timeout has passed, or neither; then the rest of handleReadSensor
PulseWait ==
  /\ pc = "measure"
  /\ \E echoed \in BOOLEAN :
     \E duration \in (IF echoed
                      THEN {u \in EchoDurations \ {0} :
                              echoWait + u <= PULSE_TIMEOUT_US}
                      ELSE {0}),
        res \in CarrierFor(Cur, TRUE) :
       IF echoed \/ pulseInExpired(echoWait + EchoSlice)
       THEN Becomes(handleReadSensor([Cur EXCEPT !.pc = "run", !.echoWait = -1],
                                     duration, res))
       ELSE /\ echoWait < PULSE_TIMEOUT_US
            /\ Becomes([Cur EXCEPT !.echoWait = @ + EchoSlice])

NextEcho ==
  \/ Setup
  \/ BeginMeasure
  \/ PulseWait
  \/ OnEspNowSend

SpecEcho == InitEcho /\ [][NextEcho]_vars /\ WF_vars(PulseWait)

\* SpecInterval: save requests at the low end of the refresh rate: 0 minutes
\* 0 seconds, 256 of each (0 of each once narrowed to uint8_t), 1 second.
IntervalRequests ==
  { Request(SentinelMac, 0, 0, 50, TRUE, <<>>, <<>>),
    Request(PeerMac, 256, 256, 100, FALSE, Tank, GoodPass),
    Request(SentinelMac, 0, 1, 50, TRUE, <<>>, <<>>) }

\* server.handleClient() dispatching POST /save with one of them
HandleSaveInterval ==
  /\ pc = "run"
  /\ served < MaxRequests
  /\ \E req \in IntervalRequests, commitOk \in BOOLEAN :
       Becomes(Served(handleSave(Cur, req, commitOk)))

NextInterval ==
  \/ Setup
  \/ LoopShort
  \/ HandleSaveInterval

SpecInterval == Init /\ [][NextInterval]_vars

\* SpecLive: SpecLink with the loop running for ever: the clock keeps
\* advancing between iterations (up to the horizon).
SpecLive == SpecLink /\ WF_vars(LoopAdvancing)

\* SpecCrash: power is lost while saveConfig runs, after k of its writes and
\* before the marker's.  The sector keeps the writes made; the bytes not yet
\* written hold what they held, or 0xFF on a medium that erases the sector
\* before it writes.
\* The numbers of writes made when power is lost: none, the first and the
\* last of each field, and every write but the marker's
CrashPoints == {0, 1, 6, 7, 10, 11, 14, 15, 16, 31, 32, EEPROM_SIZE - 1}

SaveInterrupted ==
  /\ pc = "run"
  /\ served < MaxRequests
  /\ crashes < MaxCrashes
  /\ \E req \in GoodRequests, rest \in {flash, ErasedFlash} :
       \* the Config handleSave hands to saveConfig for this request
       LET cfg == CHOOSE c \in handleSave(Cur, req, TRUE).lastSaved : TRUE
       IN \E k \in CrashPoints :
            LET torn == ApplyWrites(rest, cfg, k)
            IN Becomes(Restarted([Cur EXCEPT
                         !.flash = torn,
                         !.lastSaved = IF torn = flash THEN @ ELSE {},
                         !.crashes = @ + 1,
                         !.last = Outcome("crash", "power lost")]))

\* POST /save with a request that passes every check
HandleSaveGood ==
  /\ pc = "run"
  /\ served < MaxRequests
  /\ \E req \in GoodRequests, commitOk \in BOOLEAN :
       Becomes(Served(handleSave(Cur, req, commitOk)))

NextCrash ==
  \/ Setup
  \/ HandleSaveGood
  \/ HandleReset
  \/ SaveInterrupted

SpecCrash == Init /\ [][NextCrash]_vars

\* SpecReset: a device that holds a saved record (SlowPeerFlash) and is reset to
\* factory state, by the button held for BTN_HOLD_MS or by /reset; after
\* /reset the power may be cycled, the way to the next boot handleReset leaves.
InitReset == Is(PowerOn(SlowPeerFlash, FALSE))

\* the power is switched off and on again after /reset was served
PowerCycle ==
  /\ pc = "run"
  /\ wiped
  /\ Becomes(Restarted([Cur EXCEPT !.last = Outcome("power-on", "ok")]))

\* /reset is requested once
ResetOnce == ~wiped /\ HandleReset

NextReset ==
  \/ Setup
  \/ Loop
  \/ ButtonEdge
  \/ ResetOnce
  \/ PowerCycle

SpecReset == InitReset /\ [][NextReset]_vars

\* SpecPeer: initEspNow on the bench, called with config.parentMac drawn from
\* the addresses below and with each answer of the carrier.
PeerBytes == {0, 1, 127, 128, 254}
PeerMacs ==
  {SentinelMac, PeerMac, [i \in 1..6 |-> 0]}
    \cup {[SentinelMac EXCEPT ![i] = b] : i \in 1..6, b \in PeerBytes}

InitPeer ==
  \E mac \in PeerMacs :
    Is([PowerOn(ErasedFlash, FALSE) EXCEPT !.pc = "bench",
                                           !.config.parentMac = mac])

\* espNowInitialized = initEspNow(), the carrier answering esp_now_init and
\* esp_now_add_peer with 0 or not
InitEspNowCall ==
  /\ pc = "bench"
  /\ \E initOk \in BOOLEAN, addPeerOk \in BOOLEAN :
       Becomes([Cur EXCEPT
                  !.espNowInitialized = initEspNow(config, initOk, addPeerOk),
                  !.last = Outcome("initEspNow",
                                   IF ~initOk THEN "esp_now_init != 0"
                                   ELSE IF ~addPeerOk THEN "esp_now_add_peer != 0"
                                   ELSE "carrier up")])

NextPeer == InitEspNowCall

SpecPeer == InitPeer /\ [][NextPeer]_vars

\* SpecServe: the web handlers and setup() alone, on a device fresh from the
\* factory: what they do to config and to the EEPROM sector.  loop() is left
\* out; without the button it writes neither.
NextServe ==
  \/ Setup
  \/ HandleSave
  \/ HandleReset
  \/ HandleReadSensor
  \/ HandlePage
  \/ OnEspNowSend

SpecServe == Init /\ [][NextServe]_vars

\* SpecForced: a peer is configured, with a refresh rate of one tick or of
\* five; loop() samples on schedule and /read forces samples in between.
InitForced == \E mem \in {PeerFlash, SlowPeerFlash} : Is(PowerOn(mem, FALSE))

NextForced ==
  \/ Setup
  \/ LoopShort
  \/ HandleReadSensor
  \/ OnEspNowSend

SpecForced == InitForced /\ [][NextForced]_vars

\* SpecRetry: a peer is configured, with a refresh rate of one tick or of
\* five; sends fail and are retried until the counter has wrapped.
NextRetry ==
  \/ Setup
  \/ LoopLink
  \/ OnEspNowSend

SpecRetry == InitForced /\ [][NextRetry]_vars

(* ------------------------------------------------------------------ *)
(* Properties                                                           *)
(* ------------------------------------------------------------------ *)
\* C1, as claimed: the retry check issues no transmission earlier than
\* ESP_NOW_RETRY_MS after the issue time t0 of the send recorded as failed
\* last.  (Refuted: the test is on lastEspNowRetry, so a scheduled send that
\* fails is retried in the same loop iteration.)
C1_RetryNotBeforeFailurePlusInterval ==
  tx.kind = "retry" => tx.sinceFail >= ESP_NOW_RETRY_MS

\* C1, amended: the retry check issues no transmission earlier than
\* ESP_NOW_RETRY_MS after its own previous transmission (after boot, for the
\* first one), whatever the counter and lastEspNowRetry hold.
C1_RetryNotBeforePreviousRetryPlusInterval ==
  tx.kind = "retry" => tx.sinceRetry >= ESP_NOW_RETRY_MS

\* C1, witness: a retry issued exactly ESP_NOW_RETRY_MS after the previous
\* retry, while a failure is on record.
C1_RetryAtInterval ==
  /\ pc = "run"
  /\ tx.kind = "retry"
  /\ tx.sinceRetry = ESP_NOW_RETRY_MS
  /\ tx.sinceFail >= 0
  /\ retryAt > ESP_NOW_RETRY_MS

\* C2, as claimed: a save request rejected by a validation check leaves
\* every field of config and the EEPROM sector as they were.  (Refuted: the
\* fields parsed before the failing check are already assigned.)
C2_RejectedSaveChangesNothing ==
  [][(last'.op = "save" /\ last'.status \in {"400 Bad MAC format",
                                            "400 Invalid time format",
                                            "400 Invalid barrel height",
                                            "400 WiFi password length"})
       => (config' = config /\ flash' = flash)]_vars

\* C3, as claimed: whenever config.parentMac is FF:FF:FF:FF:FF:FF,
\* espNowInitialized is false, and no transmission goes to that address.
\* (Refuted: handleReset puts the default MAC into config and leaves
\* espNowInitialized set.)
C3_SentinelDisablesLink ==
  /\ config.parentMac = SentinelMac => ~espNowInitialized
  /\ tx.kind # "none" => tx.mac # SentinelMac

\* C4, as claimed: whatever the sector held, a saveConfig interrupted before
\* the marker's write leaves a sector on which loadConfig returns false.
\* (Refuted: a marker written by an earlier save stays where it is.)
C4_InterruptedSaveNotFound ==
  [][last'.op = "crash" => ~loadConfig(DefaultConfig, flash').ok]_vars

\* C4, amended: when the sector held no valid marker, a saveConfig
\* interrupted before the marker's write leaves a sector on which loadConfig
\* returns false; and the marker's is the last write of saveConfig, its only
\* write to that address.
C4_InterruptedFirstSaveNotFound ==
  [][(last'.op = "crash" /\ flash[MARKER_ADDR] # CONFIG_MARKER)
       => /\ ~loadConfig(DefaultConfig, flash').ok
          /\ saveOrder[Len(saveOrder)] = MARKER_ADDR
          /\ \A i \in 1..(Len(saveOrder) - 1) : saveOrder[i] # MARKER_ADDR]_vars

\* C4, witness: power was lost after the MAC of the peer was written to a
\* sector without marker; the device has restarted.
C4_TornSectorWithoutMarker ==
  /\ pc = "boot"
  /\ last.op = "crash"
  /\ flash[0] = PeerMac[1]
  /\ flash[MARKER_ADDR] = 255

\* C5: after a saveConfig(c) that returned true, loadConfig returns true and
\* a record equal to c in every field.
C5_RoundTrip ==
  \A c \in lastSaved : loadConfig(DefaultConfig, flash) = [ok |-> TRUE, cfg |-> c]

\* C5, witness: the device has restarted after a successful save and setup()
\* has loaded the record that was saved, with the peer's MAC and a height
\* of 100 cm.
C5_SavedThenLoaded ==
  /\ pc = "run"
  /\ configLoaded
  /\ config \in lastSaved
  /\ config.parentMac = PeerMac
  /\ config.barrelHeightCm = 100
  /\ config.refreshRateMs = 1000

C7_LoadWithoutMarkerKeepsRecord ==
  [][(last'.op = "setup" /\ flash[MARKER_ADDR] # CONFIG_MARKER)
       => /\ config' = config
          /\ ~configLoaded'
          /\ loadConfig(PeerConfig, flash) = [ok |-> FALSE, cfg |-> PeerConfig]]_vars

\* C7, witness: setup() has run on a sector that holds the fields of an
\* interrupted save and no marker, and config holds the defaults.
C7_BootedFromTornSector ==
  /\ pc = "run"
  /\ last.op = "setup"
  /\ ~configLoaded
  /\ flash[0] = PeerMac[1]
  /\ flash[MARKER_ADDR] # CONFIG_MARKER
  /\ config = DefaultConfig

\* C8, as claimed: a line held pressed for BTN_HOLD_MS fires the factory
\* reset (no loop iteration ends with the line sampled pressed for
\* BTN_HOLD_MS or longer and the device still running), and the reset fires
\* once per continuous press.  (Refuted: a press first sampled when millis()
\* is 0 leaves t0 at 0 and the timer starts late; and after the restart the
\* line, still held, is timed afresh and fires again.)
C8_HoldFiresExactlyOnce ==
  /\ (pc = "run" /\ last.op = "loop" /\ btnLow /\ holdFrom >= 0)
       => now - holdFrom < BTN_HOLD_MS
  /\ last.status = "reset" => ~last.again

\* C9: the factory reset fires only when the line was sampled pressed on
\* every loop iteration of the last BTN_HOLD_MS or longer.
C9_FiresOnlyAfterFullHold ==
  last.status = "reset" => last.held >= BTN_HOLD_MS

\* C9, witness: the reset has fired on a press sampled for exactly
\* BTN_HOLD_MS, the first of this press, and the device has restarted.
C9_FiredAtThreshold ==
  /\ pc = "boot"
  /\ last.status = "reset"
  /\ last.held = BTN_HOLD_MS
  /\ ~last.again

\* C10: with the link initialised and the loop running, a failure on record
\* leads to a transmission of the retry check, again and again, unless a
\* completion reports success (or the device restarts), as long as the
\* horizon of the model leaves room for two more intervals (the retry may
\* wait for a second one when lastEspNowRetry dates from before the wrap).
C10_FailureLeadsToRetry ==
  \A b \in BOOLEAN :
    (pc = "run" /\ espNowInitialized /\ ~espNowSendSuccess /\ retryFlip = b
       /\ now + 2 * ESP_NOW_RETRY_MS <= LinkNow)
      ~> (retryFlip # b \/ espNowSendSuccess \/ pc = "boot")

\* C10, witness: a retry issued when the counter has just wrapped, the
\* failure still on record after it.
C10_RetryAfterWrap ==
  /\ pc = "run"
  /\ tx.kind = "retry"
  /\ ~espNowSendSuccess
  /\ now >= TimerMod
  /\ retryAt = now
  /\ lastEspNowRetry < ESP_NOW_RETRY_MS

C12_ScheduledNotEarly ==
  smp.kind = "scheduled" => smp.since >= smp.interval

\* C12 witness: a page handler took a scheduled sample exactly one refresh
\* rate after a forced sample, after the counter had wrapped.
C12_PageSampleAfterForced ==
  /\ smp.kind = "scheduled" /\ smp.prev = "forced"
  /\ last.op = "page" /\ smp.at = now
  /\ smp.since = smp.interval
  /\ now > TimerMod

(* ------------------------------------------------------------------ *)
(* C13: the forced sample                                               *)
(* ------------------------------------------------------------------ *)
\* what the program itself holds in state s (no history)
ProgramState(s) ==
  [pc |-> s.pc, flash |-> s.flash, config |-> s.config,
   configLoaded |-> s.configLoaded, currentDistance |-> s.currentDistance,
   currentWaterLevel |-> s.currentWaterLevel, lastSensorRead |-> s.lastSensorRead,
   espNowInitialized |-> s.espNowInitialized,
   espNowSendSuccess |-> s.espNowSendSuccess, lastEspNowSend |-> s.lastEspNowSend,
   lastEspNowRetry |-> s.lastEspNowRetry, payload |-> s.payload,
   btnT0 |-> s.btnT0, btnPressed |-> s.btnPressed, inflight |-> s.inflight]

\* C13: in every state of the running program, due or not, handleReadSensor
\* leaves the program as the body of updateSensorReadings would on the same
\* echo and carrier result: the distance measured, the level recomputed,
\* lastSensorRead set to the time of the sample, and a send issued (payload
\* prepared, lastEspNowSend set) exactly when ESP-NOW is initialised.
C13_ForcedSampleAsScheduled ==
  pc = "run" =>
    \A duration \in EchoDurations, res \in CarrierResults :
      LET forced == handleReadSensor(Cur, duration, res)
          scheduled == takeSample(Cur, duration, res, "scheduled")
          d == measureDistanceCM(duration)
          level == calculateWaterLevel(d, config.barrelHeightCm)
      IN /\ ProgramState(forced) = ProgramState(scheduled)
         /\ sampleDue(Cur) =>
               ProgramState(forced) =
                 ProgramState(updateSensorReadings(Cur, duration, res))
         /\ forced.currentDistance = d /\ forced.currentWaterLevel = level
         /\ forced.lastSensorRead = millisAt(now)
         /\ espNowInitialized =>
               /\ forced.payload = [distance |-> d, waterLevel |-> level,
                                    barrelHeight |-> config.barrelHeightCm]
               /\ forced.lastEspNowSend = millisAt(now)
               /\ forced.tx.kind = "forced"
         /\ ~espNowInitialized =>
               /\ forced.payload = payload /\ forced.inflight = inflight
               /\ forced.lastEspNowSend = lastEspNowSend /\ forced.tx = tx

\* C13 witness: /read was served while no scheduled sample was due and a
\* peer was configured; the reading was sent and the interval restarted.
C13_ForcedWhileNotDue ==
  /\ last.op = "read" /\ smp.kind = "forced" /\ smp.at = now
  /\ smp.since < smp.interval
  /\ espNowInitialized /\ tx.kind = "forced"
  /\ lastSensorRead = millisAt(now)
  /\ payload.distance = currentDistance

C15_ResetAndSaveRestart ==
  [][(/\ pc = "run"
      /\ \/ last'.op = "reset" /\ served' # served
         \/ last'.status = "reset"
         \/ last'.op = "save" /\ last'.status = "200 Rebooting")
     => pc' = "boot"]_vars

(* ------------------------------------------------------------------ *)
(* C16, C17: the fill percentage                                        *)
(* ------------------------------------------------------------------ *)
\* C16: for every barrel height, calculateWaterLevel returns 0 for every
\* distance under 20 cm, the -1 of a measurement that timed out included.
C16_ZeroUnderOffset ==
  (last.op = "fill" /\ currentDistance < 20000) => currentWaterLevel = 0

\* C16 witness: the echo timed out, measureDistanceCM returned -1 and the
\* level computed for a barrel of 100 cm is 0.
C16_TimeoutGivesZero ==
  /\ last = Outcome("fill", "measured")
  /\ currentDistance = -1000 /\ config.barrelHeightCm = 100
  /\ currentWaterLevel = 0

\* C17: for every distance d of 20 cm or more and every barrel height h,
\* calculateWaterLevel returns ((h - (d - 20)) / h) * 100 clamped to
\* [0, 100], so a value in [0, 100]; 90 for h = 50 and d = 25.
C17_FormulaClamped ==
  (last.op = "fill" /\ currentDistance >= 20000) =>
    LET h == config.barrelHeightCm
        raw == ((h * 1000 - (currentDistance - 20000)) * 100) \div h
    IN /\ currentWaterLevel = IF raw < 0 THEN 0
                              ELSE IF raw > 100000 THEN 100000 ELSE raw
       /\ currentWaterLevel >= 0 /\ currentWaterLevel <= 100000
       /\ (h = 50 /\ currentDistance = 25000) => currentWaterLevel = 90000

\* C17 witness: the example of the README, 90 % for a barrel of 50 cm and a
\* reading of 25 cm.
C17_ReadmeExample ==
  /\ last = Outcome("fill", "given")
  /\ config.barrelHeightCm = 50 /\ currentDistance = 25000
  /\ currentWaterLevel = 90000

(* ------------------------------------------------------------------ *)
(* C18: the refresh rate is positive                                    *)
(* ------------------------------------------------------------------ *)
\* C18 (as stated): the refresh rate is above 0 in every state, in
\* particular in every configuration loaded from a record that a save
\* wrote.  handleSave rejects minutes or seconds above 59 only, after
\* narrowing them to uint8_t: 0 minutes 0 seconds is saved and loaded.
C18_RefreshRatePositive ==
  configLoaded => config.refreshRateMs > 0

(* ------------------------------------------------------------------ *)
(* C19: the barrel height stays in range                                *)
(* ------------------------------------------------------------------ *)
\* C19: in every state config.barrelHeightCm is above 0 and at most 1000,
\* so every sample calls calculateWaterLevel with a height it can divide
\* by; the reading on record was computed with a height in that range.
C19_BarrelHeightInRange ==
  /\ config.barrelHeightCm > 0 /\ config.barrelHeightCm <= 1000
  /\ payload # NoPayload =>
       (payload.barrelHeight > 0 /\ payload.barrelHeight <= 1000)

\* C19 witness: a save request with barrel = 0 was rejected, the height in
\* config is the one it was before, and a sample was taken with it.
C19_ZeroHeightRejected ==
  /\ pc = "run"
  /\ last.op = "read" /\ smp.kind = "forced"
  /\ config.parentMac = PeerMac /\ config.refreshRateMs = 1000
  /\ ~configLoaded /\ config.barrelHeightCm = 50
  /\ currentDistance = 51000 /\ currentWaterLevel = 38000

(* ------------------------------------------------------------------ *)
(* C20: a failed send does not stop the sampling                        *)
(* ------------------------------------------------------------------ *)
\* C20: while loop() keeps running and the clock advances, whatever the
\* carrier answers and whether or not a failure is on record, the program
\* running in a state with a full refresh interval left before the horizon
\* takes another sample (or restarts).
C20_SamplesKeepOccurring ==
  \A b \in BOOLEAN :
    (pc = "run" /\ smp.flip = b /\ now + config.refreshRateMs <= LinkNow)
      ~> (smp.flip # b \/ pc # "run")

\* C20 witness: a scheduled sample was taken after the counter had wrapped
\* although no send has succeeded since the first one failed: a failure is
\* on record and the retry check has been sending.
C20_SampledWhilePeerUnreachable ==
  /\ pc = "run" /\ smp.kind = "scheduled" /\ smp.at = now
  /\ smp.since = config.refreshRateMs
  /\ ~espNowSendSuccess /\ failT0 >= 0
  /\ retryAt > 0 /\ retryAt < now
  /\ now > TimerMod

(* ------------------------------------------------------------------ *)
(* C21: the interval checks across the wrap of millis()                 *)
(* ------------------------------------------------------------------ *)
\* C21 (as stated): with millis() wrapping modulo 2^TimerBits, each of the
\* three checks fires exactly when the time that has really passed since
\* its last event (less than one period of the counter) reaches its
\* interval: a scheduled sample is never early and none is outstanding
\* after a loop iteration; likewise the send of the retry check while a
\* failure is on record; and the factory reset fires on, and only on, a
\* line sampled pressed for BTN_HOLD_MS.  The first two hold; the hold
\* check starts its timer one iteration late when the press is first
\* sampled at millis() = 0.
C21_ChecksFireOnTrueElapsedTime ==
  /\ smp.kind = "scheduled" => smp.since >= smp.interval
  /\ (pc = "run" /\ last.op = "loop" /\ smp.kind # "none"
        /\ now - smp.at < TimerMod)
       => now - smp.at < config.refreshRateMs
  /\ tx.kind = "retry" => tx.sinceRetry >= ESP_NOW_RETRY_MS
  /\ (pc = "run" /\ last.op = "loop" /\ espNowInitialized /\ ~espNowSendSuccess
        /\ now - retryAt < TimerMod)
       => now - retryAt < ESP_NOW_RETRY_MS
  /\ last.status = "reset" => last.held >= BTN_HOLD_MS
  /\ (pc = "run" /\ last.op = "loop" /\ btnLow /\ holdFrom >= 0)
       => now - holdFrom < BTN_HOLD_MS

(* ------------------------------------------------------------------ *)
(* C29: the hold is timed from the first pressed sample                 *)
(* ------------------------------------------------------------------ *)
\* C29 (as stated): after every loop iteration that sampled the line
\* pressed, the time checkButton measures, millis() - t0, is the time since
\* the first iteration of this press, whatever millis() read then.  t0 = 0
\* doubles as "not timing": a press first sampled at millis() = 0 leaves t0
\* at 0 and the next iteration starts the timer.
C29_TimedFromFirstPressedSample ==
  (pc = "run" /\ last.op = "loop" /\ btnLow /\ holdFrom >= 0)
    => SubU32(millisAt(now), btnT0) = now - holdFrom

(* ------------------------------------------------------------------ *)
(* C22: sendEspNowData while ESP-NOW is not initialised                 *)
(* ------------------------------------------------------------------ *)
\* C22: while espNowInitialized is false, sendEspNowData changes nothing,
\* whatever the carrier would answer, and the running program has issued no
\* transmission since it booted: lastEspNowSend and lastEspNowRetry are
\* still 0, espNowSendSuccess still true, no payload was prepared and no
\* completion is outstanding.
C22_SendWhileDisabledIsNoOp ==
  (pc = "run" /\ ~espNowInitialized) =>
    /\ \A res \in CarrierResults, kind \in {"scheduled", "forced", "retry"} :
         sendEspNowData(Cur, res, kind) = Cur
    /\ lastEspNowSend = 0 /\ lastEspNowRetry = 0 /\ espNowSendSuccess
    /\ tx = NoTx /\ payload = NoPayload /\ inflight = <<>>

\* C22 witness: with ESP-NOW not initialised a scheduled sample was taken
\* by loop() one refresh interval after a forced one, and nothing was sent.
C22_SampledWithoutSend ==
  /\ pc = "run" /\ ~espNowInitialized
  /\ smp.kind = "scheduled" /\ smp.prev = "forced" /\ smp.at > 1192
  /\ last.op = "loop"
  /\ lastEspNowSend = 0 /\ tx = NoTx

(* ------------------------------------------------------------------ *)
(* C23: a measurement that times out                                    *)
(* ------------------------------------------------------------------ *)
\* C23: when the last sample's echo timed out (the distance on record is
\* the -1 of measureDistanceCM), the sample was completed all the same: the
\* level on record is 0, lastSensorRead is the time of that sample, the
\* program is running, and with ESP-NOW initialised the reading -1, 0 was
\* handed to the carrier no earlier than the sample.
C23_TimeoutSampleCompletes ==
  (pc = "run" /\ smp.kind \in {"scheduled", "forced"} /\ currentDistance = -1000)
    => /\ currentWaterLevel = 0
       /\ lastSensorRead = millisAt(smp.at)
       /\ espNowInitialized =>
            /\ payload.distance = -1000 /\ payload.waterLevel = 0
            /\ tx.kind # "none"
            /\ SubU32(lastEspNowSend, lastSensorRead) < TimerMod \div 2

\* C23 witness: a scheduled sample of loop() timed out with a peer
\* configured; -1 and 0 % are on record and in the payload sent.
C23_TimeoutSampleSent ==
  /\ pc = "run" /\ last.op = "loop"
  /\ smp.kind = "scheduled" /\ smp.at = now
  /\ currentDistance = -1000 /\ currentWaterLevel = 0
  /\ lastSensorRead = millisAt(now)
  /\ espNowInitialized /\ payload.distance = -1000
  /\ lastEspNowSend = millisAt(now)

(* ------------------------------------------------------------------ *)
(* C24: measureDistanceCM returns                                       *)
(* ------------------------------------------------------------------ *)
\* C24: a measurement under way always comes to its end, whether the echo
\* completes or the line never changes: pulseIn() returns, and
\* handleReadSensor goes back to loop() with a distance or with -1 on
\* record.
C24_MeasurementReturns ==
  (pc = "measure") ~>
    (pc = "run" /\ echoWait = -1 /\ smp.kind = "forced"
       /\ (currentDistance = -1000 \/ currentDistance > 0))

\* C24 witness: the echo line never changed; pulseIn() gave up in its last
\* slice and the forced sample ended with -1 on record.
C24_ReturnedAfterTimeout ==
  /\ pc = "run" /\ last = Outcome("read", "200")
  /\ smp.kind = "forced" /\ currentDistance = -1000
  /\ echoWait = -1

(* ------------------------------------------------------------------ *)
(* C25: a rejected commit                                               *)
(* ------------------------------------------------------------------ *)
\* C25: in every state of the running program, a save request that passes
\* the checks of handleSave and whose EEPROM.commit() is rejected gets the
\* answer 500; saveConfig has returned false, the sector is as it was (one
\* attempt, not repeated), and the program has not restarted: it is still
\* running, its clock and its request count go on.
C25_RejectedCommitReported ==
  pc = "run" =>
    \A req \in IntervalRequests :
      LET r == handleSave(Cur, req, FALSE)
      IN /\ ~saveConfig(r.config, flash, FALSE).ok
         /\ r.last = Outcome("save", "500 Failed to save settings")
         /\ r.flash = flash /\ r.lastSaved = lastSaved
         /\ r.pc = "run" /\ r.now = now /\ r.served = served
         /\ r.lastSensorRead = lastSensorRead

\* C25 witness: the first save request of a fresh device was answered 500;
\* the sector is still erased and the device still runs on what it booted
\* with (no record).
C25_SaveFailedDeviceRuns ==
  /\ pc = "run" /\ last = Outcome("save", "500 Failed to save settings")
  /\ flash = ErasedFlash /\ ~configLoaded
  /\ served = 1

C27_StatusShowsLastOutcome ==
  last.op = "page" =>
    /\ (last.status = "Disabled (Parent MAC not configured)") = ~espNowInitialized
    /\ (last.status = "Error") = (espNowInitialized /\ sent.failed)
    /\ (last.status = "Connected") = (espNowInitialized /\ ~sent.failed)

\* C28, as claimed: initEspNow returns false, ESP-NOW staying uninitialised,
\* when config.parentMac is FF:FF:FF:FF:FF:FF, and true for every other
\* address.  (Refuted: it returns false as well when esp_now_init or
\* esp_now_add_peer fails.)
C28_TrueForEveryOtherAddress ==
  last.op = "initEspNow" =>
    (espNowInitialized <=> config.parentMac # SentinelMac)

\* C28, amended: initEspNow returns false when config.parentMac is
\* FF:FF:FF:FF:FF:FF; for every other address it returns true exactly when
\* esp_now_init and esp_now_add_peer both succeed.
C28_TrueWhenPeerRegistered ==
  last.op = "initEspNow" =>
    /\ config.parentMac = SentinelMac => ~espNowInitialized
    /\ config.parentMac # SentinelMac =>
         (espNowInitialized <=> last.status = "carrier up")

\* C28 witness: the address that differs from the sentinel in its last byte
\* only was registered
C28_NearSentinelRegistered ==
  /\ last.op = "initEspNow"
  /\ config.parentMac = <<255, 255, 255, 255, 255, 254>>
  /\ espNowInitialized

\* C30: at every transmission handed to the carrier, scheduled, forced or
\* retry, the water level of the payload is calculateWaterLevel of the
\* payload's distance and the payload's barrel height.  (Refuted: a retry
\* takes the barrel height from config as it is then, which /reset and a
\* rejected /save have changed since the sample.)
C30_PayloadFromOneSample ==
  tx.kind # "none" =>
    payload.waterLevel = calculateWaterLevel(payload.distance, payload.barrelHeight)

\* C31: whenever the outcome of the send issued last is known (no completion
\* is outstanding, or every outstanding one belongs to a send issued before
\* one that esp_now_send rejected), espNowSendSuccess tells that outcome.
\* (Refuted: onEspNowSend assigns espNowSendSuccess for whatever send it
\* completes, so the success of an earlier send overwrites the failure
\* recorded for a later, rejected one.)
C31_FlagTellsLatestOutcome ==
  (pc = "run" /\ espNowInitialized
     /\ (inflight = <<>> \/ (sent.failed /\ sent.older = Len(inflight))))
    => (espNowSendSuccess <=> ~sent.failed)

\* C32: in every iteration of loop(), whatever the refresh rate: a retry
\* that follows an earlier retry of this boot comes at least ESP_NOW_RETRY_MS
\* after it; and when a failure is on record and ESP_NOW_RETRY_MS or more
\* (less than one period of the counter) have passed since the previous
\* retry, the iteration retries, however many retries came before.
C32_RetriesOneIntervalApart ==
  [][(pc = "run" /\ pc' = "run" /\ last'.op = "loop")
       => /\ (retryFlip' # retryFlip /\ retryAt > 0)
               => now' - retryAt >= ESP_NOW_RETRY_MS
          /\ (/\ espNowInitialized /\ ~espNowSendSuccess
              /\ retryAt > 0
              /\ now' - retryAt >= ESP_NOW_RETRY_MS
              /\ now' - retryAt < TimerMod)
               => (retryFlip' # retryFlip /\ retryAt' = now' /\ tx'.kind = "retry")]_vars

\* C32 witness: under a refresh rate of 5 s the fourth retry in a row, each
\* ESP_NOW_RETRY_MS after the one before
C32_FourthRetryAtInterval ==
  /\ pc = "run" /\ last.op = "loop"
  /\ config.refreshRateMs = 5000
  /\ tx.kind = "retry" /\ tx.sinceRetry = ESP_NOW_RETRY_MS
  /\ retryAt = 6192 + 3 * ESP_NOW_RETRY_MS

\* C33, as claimed: every step that takes a sample while ESP-NOW is
\* initialised, the one of setup() included, hands the reading to
\* sendEspNowData.  (Refuted: setup() measures and computes the level after
\* initEspNow() and sends nothing.)
C33_EverySampleSent ==
  [][(smp' # smp /\ pc' = "run" /\ espNowInitialized')
       => (/\ tx'.kind # "none"
           /\ payload' = [distance |-> currentDistance',
                          waterLevel |-> currentWaterLevel',
                          barrelHeight |-> config'.barrelHeightCm])]_vars

\* C33, amended: every scheduled and every forced sample taken while ESP-NOW
\* is initialised is handed to sendEspNowData at once (the payload is the
\* new reading, lastEspNowSend the time of the sample); the sample of
\* setup() is not sent: no payload is prepared and lastEspNowSend stays 0.
C33_ScheduledAndForcedSent ==
  [][(smp' # smp /\ pc' = "run" /\ espNowInitialized')
       => IF smp'.kind = "setup"
          THEN tx' = NoTx /\ payload' = NoPayload /\ lastEspNowSend' = 0
                 /\ inflight' = <<>>
          ELSE /\ smp'.kind \in {"scheduled", "forced"}
               /\ tx'.kind \in {smp'.kind, "retry"}
               /\ payload' = [distance |-> currentDistance',
                              waterLevel |-> currentWaterLevel',
                              barrelHeight |-> config'.barrelHeightCm]
               /\ lastEspNowSend' = millisAt(smp'.at)
               /\ smp'.at = now']_vars

\* C33 witness: a forced sample was sent, following a scheduled one, on a
\* device whose sample at boot went unsent
C33_ForcedAfterScheduledSent ==
  /\ pc = "run" /\ espNowInitialized
  /\ last.op = "read" /\ smp.kind = "forced" /\ smp.prev = "scheduled"
  /\ tx.kind = "forced"
  /\ payload.distance = currentDistance /\ payload.waterLevel = currentWaterLevel
  /\ lastEspNowSend = millisAt(now)

\* C34: a /save that submits minutes or seconds above 59, whatever the
\* integer, and passes the checks before the one of the time, is answered
\* "Invalid time format"; and an accepted /save stores the refresh rate
\* (minutes * 60 + seconds) * 1000 of the values submitted.  (Refuted: the
\* values are narrowed to uint8_t before the test, so 256 passes as 0.)
C34_TimeCheckedAsSubmitted ==
  last.op = "save" =>
    /\ ((asked.minutes > 59 \/ asked.seconds > 59)
          /\ last.status \notin {"400 Missing parameters", "400 Bad MAC format"})
         => last.status = "400 Invalid time format"
    /\ last.status = "200 Rebooting"
         => loadConfig(DefaultConfig, flash).cfg.refreshRateMs
              = (asked.minutes * 60 + asked.seconds) * 1000

====
